---- MODULE Spec2Model ----
(***************************************************************************)
(* PandemicPulse (src/app.py): the data-refresh cache fetch_covid_data,    *)
(* the per-record normalisation it performs, and the render step           *)
(* update_dashboard that consumes the entry it returns.                    *)
(*                                                                         *)
(* Conventions.                                                            *)
(*  - Python None is the empty tuple <<>> and a present value x is <<x>>.  *)
(*  - A JSON scalar is a record [t, v]: t is "num", "str" (a non-numeric   *)
(*    string), "null", "obj" (a nested object) or "missing" (key absent);  *)
(*    v is the number when t = "num" and 0 otherwise.                      *)
(*  - A float64 is a reduced fraction <<n, d>> with d > 0; NaN is <<0, 0>>.*)
(*  - Time is in seconds.                                                  *)
(***************************************************************************)
EXTENDS Integers, Sequences, FiniteSets, TLC

(***************************************************************************)
(* Bounds of the model.                                                    *)
(***************************************************************************)
MaxClock == 900

(***************************************************************************)
(* Program constants.                                                      *)
(***************************************************************************)
FRESH_SECONDS == 900
PER_MILLION == 1000000

None == <<>>
Some(x) == <<x>>

(***************************************************************************)
(* float64 arithmetic on reduced fractions.                                *)
(***************************************************************************)
RECURSIVE GCD(_, _)
GCD(a, b) == IF b = 0 THEN a ELSE GCD(b, a % b)

Abs(x) == IF x < 0 THEN -x ELSE x

\* The element of a one-element set.
Only(S) == CHOOSE x \in S : TRUE

NaN == <<0, 0>>
Fl(n) == <<n, 1>>
IsNaN(x) == x[2] = 0

Norm(n, d) ==
    LET g == GCD(Abs(n), Abs(d))
        s == IF d < 0 THEN -1 ELSE 1
    IN  <<(s * n) \div g, (s * d) \div g>>

FDiv(a, b) == IF IsNaN(a) \/ IsNaN(b) THEN NaN ELSE Norm(a[1] * b[2], a[2] * b[1])
FMul(a, b) == IF IsNaN(a) \/ IsNaN(b) THEN NaN ELSE Norm(a[1] * b[1], a[2] * b[2])
FAdd(a, b) == IF IsNaN(a) \/ IsNaN(b) THEN NaN ELSE Norm(a[1] * b[2] + b[1] * a[2], a[2] * b[2])
FGt(a, b) == ~IsNaN(a) /\ ~IsNaN(b) /\ a[1] * b[2] > b[1] * a[2]

(***************************************************************************)
(* JSON scalars.                                                           *)
(***************************************************************************)
Num(n) == [t |-> "num", v |-> n]
BadStr == [t |-> "str", v |-> 0]
Null == [t |-> "null", v |-> 0]
Obj == [t |-> "obj", v |-> 0]
Missing == [t |-> "missing", v |-> 0]
\* an integer too large for a float64 (JSON integers are unbounded), and its negation
Huge == [t |-> "huge", v |-> 0]
NegHuge == [t |-> "neghuge", v |-> 0]

\* dict.get(key, default): the default replaces an absent key only.
Get(x, default) == IF x.t = "missing" THEN default ELSE x

(***************************************************************************)
(* Python exceptions are named by their class; "none" is normal            *)
(* completion of a statement.                                              *)
(***************************************************************************)
\* The classes the per-record handler catches: except (KeyError, TypeError).
InnerCaught == {"KeyError", "TypeError"}

\* The numeric columns in the order the loop body assigns them.
NumFields == <<"cases", "active", "recovered", "deaths", "tests", "population">>
NumFieldSet == {NumFields[k] : k \in 1..Len(NumFields)}

\* The default that item.get(field, default) passes for each column.
FieldDefault(f) == IF f = "population" THEN Num(1) ELSE Num(0)

\* np.zeros(n) for every column, np.ones(n) for population.
ArrayInit(f) == IF f = "population" THEN Fl(1) ELSE Fl(0)

\* arr[i] = x on a float64 array: a number is stored, None is stored as NaN,
\* a non-numeric string raises ValueError, an integer beyond the float range
\* raises OverflowError, a dict raises TypeError.
SetItem(x) ==
    CASE x.t = "num" -> [exc |-> "none", f |-> Fl(x.v)]
      [] x.t \in {"huge", "neghuge"} -> [exc |-> "OverflowError", f |-> NaN]
      [] x.t = "null" -> [exc |-> "none", f |-> NaN]
      [] x.t = "str" -> [exc |-> "ValueError", f |-> NaN]
      [] OTHER -> [exc |-> "TypeError", f |-> NaN]

\* The six column assignments of one loop iteration, stopping at the first
\* statement that raises; the columns assigned before it keep their values.
RECURSIVE AssignFields(_, _, _, _)
AssignFields(st, i, item, k) ==
    IF k > Len(NumFields) THEN st
    ELSE LET f == NumFields[k]
             r == SetItem(Get(item[f], FieldDefault(f)))
         IN  IF r.exc # "none" THEN [st EXCEPT !.exc = r.exc]
             ELSE AssignFields([st EXCEPT !.num[f][i] = r.f], i, item, k + 1)

\* item.get('countryInfo', {}).get('iso3', 'Unknown')
Iso3Of(item) ==
    LET ci == item.countryInfo
    IN  IF ci.t = "missing" THEN [exc |-> "none", s |-> "Unknown"]
        ELSE IF ci.t = "obj"
             THEN [exc |-> "none", s |-> IF ci.iso3 = "" THEN "Unknown" ELSE ci.iso3]
             ELSE [exc |-> "AttributeError", s |-> ""]

\* The body of the try block of one iteration of the record loop.
LoopBody(st, i, item) ==
    IF item.kind # "dict" THEN [st EXCEPT !.exc = "AttributeError"]
    ELSE LET name == IF item.country = "" THEN "Unknown" ELSE item.country
             s1 == [st EXCEPT !.countries = Append(@, name)]
             s2 == AssignFields(s1, i, item, 1)
             iso == Iso3Of(item)
         IN  IF s2.exc # "none" THEN s2
             ELSE IF iso.exc # "none" THEN [s2 EXCEPT !.exc = iso.exc]
             ELSE [s2 EXCEPT !.iso3 = Append(@, iso.s)]

\* for i, item in enumerate(data): try ... except (KeyError, TypeError): continue
RECURSIVE Loop(_, _, _)
Loop(st, data, i) ==
    IF i > Len(data) THEN st
    ELSE LET s == LoopBody(st, i, data[i])
         IN  IF s.exc = "none" THEN Loop(s, data, i + 1)
             ELSE IF s.exc \in InnerCaught
                  THEN Loop([s EXCEPT !.exc = "none"], data, i + 1)
                  ELSE s

\* The lists and pre-allocated arrays, then the loop over the records.
ProcessRecords(data) ==
    Loop([exc |-> "none",
          countries |-> <<>>,
          iso3 |-> <<>>,
          num |-> [f \in NumFieldSet |-> [i \in 1..Len(data) |-> ArrayInit(f)]]],
         data, 1)

\* The positions np.divide(..., where=population!=0) does not write.
Masked(population) == {i \in 1..Len(population) : population[i] = Fl(0)}

\* np.divide(vals, population, where=population!=0) * 1_000_000; u gives the
\* content of the freshly allocated output at the positions left unwritten.
PerMillion(vals, population, u) ==
    [i \in 1..Len(vals) |->
        FMul(IF population[i] # Fl(0) THEN FDiv(vals[i], population[i]) ELSE u[i],
             Fl(PER_MILLION))]

\* a - b on two JSON scalars: defined on numbers, TypeError otherwise.
Sub(a, b) ==
    CASE a.t = "num" /\ b.t = "num" -> [exc |-> "none", x |-> Num(a.v - b.v)]
      [] a.t = b.t /\ a.t \in {"huge", "neghuge"} -> [exc |-> "none", x |-> Num(0)]
      [] a.t = "huge" /\ b.t \in {"num", "neghuge"} -> [exc |-> "none", x |-> Huge]
      [] a.t = "neghuge" /\ b.t \in {"num", "huge"} -> [exc |-> "none", x |-> NegHuge]
      [] a.t = "num" /\ b.t = "huge" -> [exc |-> "none", x |-> NegHuge]
      [] a.t = "num" /\ b.t = "neghuge" -> [exc |-> "none", x |-> Huge]
      [] OTHER -> [exc |-> "TypeError", x |-> Num(0)]

\* a / b (true division) on two JSON scalars: ZeroDivisionError for a zero
\* divisor, OverflowError when the quotient of two integers is too large for a
\* float, TypeError for an operand that is not a number.
TrueDiv(a, b) ==
    CASE a.t \in {"num", "huge", "neghuge"} /\ b = Num(0) -> [exc |-> "ZeroDivisionError", f |-> NaN]
      [] a.t = "num" /\ b.t = "num" -> [exc |-> "none", f |-> FDiv(Fl(a.v), Fl(b.v))]
      [] a.t \in {"huge", "neghuge"} /\ b.t = "num" -> [exc |-> "OverflowError", f |-> NaN]
      [] a.t = "num" /\ b.t \in {"huge", "neghuge"} -> [exc |-> "none", f |-> Fl(0)]
      [] a.t \in {"huge", "neghuge"} /\ b.t \in {"huge", "neghuge"} ->
            [exc |-> "none", f |-> IF a.t = b.t THEN Fl(1) ELSE Fl(-1)]
      [] OTHER -> [exc |-> "TypeError", f |-> NaN]

\* The classes calculate_trend catches: except (TypeError, ZeroDivisionError).
TrendCaught == {"TypeError", "ZeroDivisionError"}

\* The body of calculate_trend on the values of its two arguments.
TrendBody(current, previous) ==
    LET d == Sub(current, previous)
        q == TrueDiv(d.x, previous)
        body == IF previous = Num(0) \/ previous.t = "null" THEN [exc |-> "none", v |-> Fl(0)]
                ELSE IF d.exc # "none" THEN [exc |-> d.exc, v |-> NaN]
                ELSE IF q.exc # "none" THEN [exc |-> q.exc, v |-> NaN]
                ELSE [exc |-> "none", v |-> FMul(q.f, Fl(100))]
    IN  IF body.exc \in TrendCaught THEN [exc |-> "none", v |-> Fl(0)] ELSE body

\* calculate_trend(current, previous) on two JSON scalars: the exception that
\* leaves it, if any, and the value it returns.  The arguments are evaluated
\* once, before the call.
calculate_trend(current, previous) ==
    Only({TrendBody(c, p) : c \in {current}, p \in {previous}})

(***************************************************************************)
(* What the upstream API can answer.  A response is                        *)
(*   err    - session.get raised (connection error, timeout)               *)
(*   status - the HTTP status of the response                              *)
(*   json   - whether response.json() can parse the body                   *)
(*   kind   - the top-level JSON value: "list" or "dict"                   *)
(* with the records of a per-country body in items and the fields of a     *)
(* global-summary body in g.                                               *)
(***************************************************************************)
Item(kind, country, cases, population, countryInfo) ==
    [kind |-> kind, country |-> country, cases |-> cases,
     active |-> Num(1), recovered |-> Num(2), deaths |-> Num(1), tests |-> Num(8),
     population |-> population, countryInfo |-> countryInfo]

ItemA == Item("dict", "A", Num(10), Num(5), [t |-> "obj", iso3 |-> "AAA"])
ItemB == Item("dict", "B", Num(4), Num(2), [t |-> "obj", iso3 |-> "BBB"])
\* a record that carries its name only
ItemSparse ==
    [kind |-> "dict", country |-> "C", cases |-> Missing, active |-> Missing,
     recovered |-> Missing, deaths |-> Missing, tests |-> Missing,
     population |-> Missing, countryInfo |-> [t |-> "missing", iso3 |-> ""]]
\* a record whose population is 0 (the upstream reports ships this way)
ItemPop0 == Item("dict", "D", Num(6), Num(0), [t |-> "obj", iso3 |-> ""])
\* cases is a non-numeric string, null, a nested object
ItemBadCases == Item("dict", "E", BadStr, Num(5), [t |-> "obj", iso3 |-> "EEE"])
ItemNullCases == Item("dict", "F", Null, Num(5), [t |-> "obj", iso3 |-> "FFF"])
ItemObjCases == Item("dict", "G", Obj, Num(5), [t |-> "obj", iso3 |-> "GGG"])
\* a record that is a JSON string instead of an object
ItemString == Item("str", "", Missing, Missing, [t |-> "missing", iso3 |-> ""])

Batches ==
    { <<ItemA, ItemB, ItemSparse>>,
      <<ItemB>>,
      <<>>,
      <<ItemA, ItemBadCases, ItemB>>,
      <<ItemA, ItemString, ItemB>>,
      <<ItemA, ItemPop0>>,
      <<ItemA, ItemObjCases, ItemB>>,
      <<ItemNullCases, ItemA>> }

Global(todayCases, cases, updated) ==
    [todayCases |-> todayCases, todayDeaths |-> Num(1), todayRecovered |-> Num(2),
     cases |-> cases, deaths |-> Num(12), recovered |-> Num(60), updated |-> updated]

GlobalToday == Global(Num(5), Num(120), Num(600500))
GlobalYesterday == Global(Num(4), Num(100), Num(300000))
\* an error object such as {"message": ...}: none of the fields is present
GlobalNoFields ==
    [todayCases |-> Missing, todayDeaths |-> Missing, todayRecovered |-> Missing,
     cases |-> Missing, deaths |-> Missing, recovered |-> Missing, updated |-> Missing]
GlobalNullToday == Global(Null, Num(120), Num(600500))
GlobalBadUpdated == Global(Num(5), Num(120), BadStr)

Statuses == {200, 500}
StatusOk(status) == status >= 200 /\ status < 300

NetErrC == [err |-> TRUE, status |-> 0, json |-> FALSE, kind |-> "list", items |-> <<>>]
NoJsonC(st) == [err |-> FALSE, status |-> st, json |-> FALSE, kind |-> "list", items |-> <<>>]
ListC(st, b) == [err |-> FALSE, status |-> st, json |-> TRUE, kind |-> "list", items |-> b]
\* an error object: iterating it yields its keys, which are strings
DictC(st) == [err |-> FALSE, status |-> st, json |-> TRUE, kind |-> "dict", items |-> <<ItemString>>]

NetErrG == [err |-> TRUE, status |-> 0, json |-> FALSE, kind |-> "dict", g |-> GlobalNoFields]
NoJsonG(st) == [err |-> FALSE, status |-> st, json |-> FALSE, kind |-> "dict", g |-> GlobalNoFields]
DictG(st, g) == [err |-> FALSE, status |-> st, json |-> TRUE, kind |-> "dict", g |-> g]
ListG(st) == [err |-> FALSE, status |-> st, json |-> TRUE, kind |-> "list", g |-> GlobalNoFields]

\* The batch of the caching scenarios: well-formed records only.
GoodBatches == { <<ItemA, ItemB, ItemSparse>> }

\* Each request can raise, return a body that is not JSON, or return JSON with
\* a success or a non-success status.
CountryResponses(batches) ==
    {NetErrC, NoJsonC(200), DictC(500)}
        \cup {ListC(st, b) : st \in Statuses, b \in batches}
YesterdayResponses ==
    {NetErrC, NoJsonC(500), ListC(200, <<ItemB>>), ListC(500, <<>>)}
GlobalResponses(globals) ==
    {NetErrG, ListG(200), DictG(500, GlobalNoFields)}
        \cup {DictG(200, g) : g \in globals}
GlobalYesterdayResponses ==
    {NetErrG, DictG(500, GlobalNoFields), DictG(200, GlobalYesterday)}

\* What a freshly allocated float64 can hold where np.divide does not write.
Uninit == {Fl(0), Fl(3)}

(***************************************************************************)
(* The try block of fetch_covid_data: the four requests, then the          *)
(* processing of their bodies into the entry.                              *)
(***************************************************************************)
\* session.get(...) raised, or response.json() raised on the body.
RequestFails(r) == r.err \/ ~r.json

\* The number of session.get calls made: the requests are sequential and each
\* body is parsed before the next request is sent.
RequestsIssued(rs) ==
    IF \E i \in 1..4 : RequestFails(rs[i])
    THEN CHOOSE i \in 1..4 : RequestFails(rs[i]) /\ \A j \in 1..(i - 1) : ~RequestFails(rs[j])
    ELSE 4

\* The statuses of the responses received (no status for a request that raised
\* or was never sent).
ReceivedStatuses(rs) == {rs[i].status : i \in {j \in 1..RequestsIssued(rs) : ~rs[j].err}}

\* The dict built once all four bodies are parsed.  built_at is not a key of
\* the dict: it records the `now` of the call that built this object.
NewEntry(recs, g, gy, now, u) ==
    [countries |-> recs.countries,
     cases |-> recs.num["cases"],
     active |-> recs.num["active"],
     recovered |-> recs.num["recovered"],
     deaths |-> recs.num["deaths"],
     iso3 |-> recs.iso3,
     cases_per_million |-> PerMillion(recs.num["cases"], recs.num["population"], u.c),
     deaths_per_million |-> PerMillion(recs.num["deaths"], recs.num["population"], u.d),
     tests_per_million |-> PerMillion(recs.num["tests"], recs.num["population"], u.t),
     last_updated |-> Get(g.updated, Num(now * 1000)).v \div 1000,
     new_cases |-> Get(g.todayCases, Num(0)),
     new_deaths |-> Get(g.todayDeaths, Num(0)),
     new_recovered |-> Get(g.todayRecovered, Num(0)),
     cases_trend |-> calculate_trend(Get(g.cases, Num(0)), Get(gy.cases, Num(0))).v,
     deaths_trend |-> calculate_trend(Get(g.deaths, Num(0)), Get(gy.deaths, Num(0))).v,
     recovered_trend |-> calculate_trend(Get(g.recovered, Num(0)), Get(gy.recovered, Num(0))).v,
     built_at |-> now]

\* EmptyEntry with a placeholder row instead of empty columns.
EmptyEntry_placeholder(now) ==
    [countries |-> <<"Unknown">>, cases |-> <<Fl(0)>>, active |-> <<Fl(0)>>,
     recovered |-> <<Fl(0)>>, deaths |-> <<Fl(0)>>, iso3 |-> <<"Unknown">>,
     cases_per_million |-> <<Fl(0)>>, deaths_per_million |-> <<Fl(0)>>,
     tests_per_million |-> <<Fl(0)>>,
     last_updated |-> now,
     new_cases |-> Num(0), new_deaths |-> Num(0), new_recovered |-> Num(0),
     cases_trend |-> Fl(0), deaths_trend |-> Fl(0), recovered_trend |-> Fl(0),
     built_at |-> now]

\* The synthetic entry of the except branch.
EmptyEntry(now) ==
    [countries |-> <<>>, cases |-> <<>>, active |-> <<>>, recovered |-> <<>>,
     deaths |-> <<>>, iso3 |-> <<>>, cases_per_million |-> <<>>,
     deaths_per_million |-> <<>>, tests_per_million |-> <<>>,
     last_updated |-> now,
     new_cases |-> Num(0), new_deaths |-> Num(0), new_recovered |-> Num(0),
     cases_trend |-> Fl(0), deaths_trend |-> Fl(0), recovered_trend |-> Fl(0),
     built_at |-> now]

\* The exception of the global-summary part, if any: .get on a body that is not
\* a dict, an exception that leaves calculate_trend, a timestamp that cannot be
\* divided by 1000.
SummaryException(rs) ==
    LET trends == [k \in {"cases", "deaths", "recovered"} |->
                      calculate_trend(Get(rs[3].g[k], Num(0)), Get(rs[4].g[k], Num(0))).exc]
        updated == Get(rs[3].g.updated, Num(0))
    IN  IF rs[3].kind # "dict" \/ rs[4].kind # "dict" THEN "AttributeError"
        ELSE IF trends["cases"] # "none" THEN trends["cases"]
        ELSE IF trends["deaths"] # "none" THEN trends["deaths"]
        ELSE IF trends["recovered"] # "none" THEN trends["recovered"]
        ELSE IF updated.t = "num" THEN "none"
        ELSE IF updated.t \in {"huge", "neghuge"} THEN "OverflowError"
        ELSE "TypeError"

\* Where an exception arises in the try block, if anywhere: in a request, in
\* the record loop (an error the inner handler does not catch), or in the
\* global-summary part (.get on a body that is not a dict, a timestamp that is
\* not a number).  recs is the outcome of the record loop.
TryStage(rs, recs) ==
    IF \E i \in 1..4 : RequestFails(rs[i]) THEN "request"
    ELSE IF recs.exc # "none" THEN "records"
    ELSE IF SummaryException(rs) # "none" THEN "summary"
    ELSE "none"

\* The class of that exception.
TryException(rs, recs) ==
    LET stage == TryStage(rs, recs)
    IN  CASE stage = "request" ->
                (IF rs[RequestsIssued(rs)].err THEN "RequestException" ELSE "JSONDecodeError")
          [] stage = "records" -> recs.exc
          [] stage = "summary" -> SummaryException(rs)
          [] OTHER -> "none"

\* The possible contents of the three per-million outputs where they are not
\* written (the outputs exist only when the record loop completes).
UninitChoices(rs, recs) ==
    LET m == IF TryStage(rs, recs) \in {"request", "records"} THEN {}
             ELSE Masked(recs.num["population"])
    IN  [c : [m -> Uninit], d : [m -> Uninit], t : [m -> Uninit]]

TryBlock(rs, recs, now, u) ==
    LET exc == TryException(rs, recs)
    IN  [exc |-> exc,
         stage |-> TryStage(rs, recs),
         records |-> IF RequestFails(rs[1]) THEN None ELSE Some(rs[1].items),
         nreq |-> RequestsIssued(rs),
         bad_status |-> \E st \in ReceivedStatuses(rs) : ~StatusOk(st),
         data |-> IF exc = "none"
                  THEN Some(NewEntry(recs, rs[3].g, rs[4].g, now, u))
                  ELSE None]

(***************************************************************************)
(* The render step.                                                        *)
(***************************************************************************)
\* The builtin max over the array: the running maximum is replaced only by an
\* element that compares greater, and no comparison with NaN is true.
RECURSIVE MaxFrom(_, _, _)
MaxFrom(xs, i, cur) ==
    IF i > Len(xs) THEN cur
    ELSE MaxFrom(xs, i + 1, IF FGt(xs[i], cur) THEN xs[i] ELSE cur)

\* np.sum
RECURSIVE SumFrom(_, _)
SumFrom(xs, i) == IF i > Len(xs) THEN Fl(0) ELSE FAdd(xs[i], SumFrom(xs, i + 1))

\* create_map_figure: max() of an empty array raises ValueError, and so does
\* int(max_cases / 1_000_000) when the maximum is NaN.
create_map_figure(map_data) ==
    IF Len(map_data.cases) = 0 THEN [exc |-> "ValueError", max_cases |-> NaN]
    ELSE LET max_cases == MaxFrom(map_data.cases, 2, map_data.cases[1])
         IN  IF IsNaN(max_cases) THEN [exc |-> "ValueError", max_cases |-> NaN]
             ELSE [exc |-> "none", max_cases |-> max_cases]

\* create_card formats its value with f"{value:,}", which raises for a value
\* that is not a number.
create_card(value) == IF value.t = "num" THEN "none" ELSE "TypeError"

\* The body of update_dashboard after it has the entry: the seven cards, then
\* the map, then the charts.
RenderOutputs(data) ==
    LET cards == {create_card(data.new_cases), create_card(data.new_recovered),
                  create_card(data.new_deaths)}
        map == create_map_figure([country |-> data.countries, iso3 |-> data.iso3,
                                  cases |-> data.cases,
                                  cases_per_million |-> data.cases_per_million])
    IN  IF cards # {"none"} THEN [exc |-> "TypeError", total_cases |-> Fl(0), max_cases |-> Fl(0)]
        ELSE IF map.exc # "none" THEN [exc |-> map.exc, total_cases |-> Fl(0), max_cases |-> Fl(0)]
        ELSE [exc |-> "none", total_cases |-> SumFrom(data.cases, 1), max_cases |-> map.max_cases]

(***************************************************************************)
(* State.                                                                  *)
(***************************************************************************)
VARIABLES
    data_cache,   \* the module-level dict {'data', 'last_fetch'}
    clock,        \* what datetime.now() returns
    pc,           \* where each caller is in fetch_covid_data / update_dashboard
    frame,        \* the locals of each caller's current call
    ret,          \* what each caller's current fetch_covid_data call returned
    out,          \* the outcome of each caller's render
    hist,         \* summary of the force=False call that completed last
    calc          \* the last application of one of the pure helper functions

vars == <<data_cache, clock, pc, frame, ret, out, hist, calc>>

Procs == {1, 2}
\* The one caller of the single-threaded execution the design assumes.
Serial == {1}

\* The interval of the render timer, in seconds.
TICK_SECONDS == 300

EmptyCache == [data |-> None, last_fetch |-> None]

NoFrame ==
    [force |-> FALSE, now |-> 0, caller |-> "direct", data |-> None, exc |-> "none",
     stage |-> "none", records |-> None, nreq |-> 0, bad_status |-> FALSE, pre |-> EmptyCache,
     last_data |-> FALSE, last_time |-> FALSE]

\* No helper function has been applied.
NoCalc == [fn |-> "none", args |-> <<>>, res |-> <<>>]

Init ==
    /\ data_cache = EmptyCache
    /\ clock = 0
    /\ pc = [p \in Procs |-> "idle"]
    /\ frame = [p \in Procs |-> NoFrame]
    /\ ret = [p \in Procs |-> None]
    /\ out = [p \in Procs |-> "none"]
    /\ hist = None
    /\ calc = NoCalc

\* Fresh with the earlier five-minute window.
Fresh_five(force, now, cache) ==
    /\ ~force
    /\ cache.data # None
    /\ cache.last_fetch # None
    /\ now - cache.last_fetch[1] < 300

\* Fresh with an inclusive comparison.
Fresh_inclusive(force, now, cache) ==
    /\ ~force
    /\ cache.data # None
    /\ cache.last_fetch # None
    /\ now - cache.last_fetch[1] <= FRESH_SECONDS

\* if not force and data is not None and last_fetch is not None:
\*     if (now - last_fetch).total_seconds() < 900:
Fresh(force, now, cache) ==
    /\ ~force
    /\ cache.data # None
    /\ cache.last_fetch # None
    /\ now - cache.last_fetch[1] < FRESH_SECONDS

\* Entering fetch_covid_data: read the clock, then test the cache.
Call(p, force, caller) ==
    /\ pc[p] = "idle"
    /\ frame' = [frame EXCEPT ![p] = [NoFrame EXCEPT !.force = force, !.now = clock,
                                                       !.caller = caller, !.pre = data_cache]]
    /\ pc' = [pc EXCEPT ![p] = IF Fresh(force, clock, data_cache) THEN "hit" ELSE "fetch"]
    /\ UNCHANGED <<data_cache, clock, ret, out, hist, calc>>

\* A direct call of fetch_covid_data(force=True).
fetch_covid_data(p) == Call(p, TRUE, "direct")

\* The dashboard callback: data = fetch_covid_data()
update_dashboard(p) == Call(p, FALSE, "update_dashboard")

\* A return from fetch_covid_data hands the value to the caller.
Return(p, value) ==
    /\ ret' = [ret EXCEPT ![p] = Some(value)]
    /\ pc' = [pc EXCEPT ![p] = IF frame[p].caller = "update_dashboard" THEN "render" ELSE "returned"]

\* return data_cache['data'] of the cache-hit branch
ReturnCached(p) ==
    /\ pc[p] = "hit"
    /\ Return(p, data_cache.data[1])
    /\ UNCHANGED <<data_cache, clock, frame, out, hist, calc>>

\* The try block up to the construction of the new dict.
Refresh(p, CR, YR, GR, GYR) ==
    /\ pc[p] = "fetch"
    /\ \E r1 \in CR, r2 \in YR, r3 \in GR, r4 \in GYR :
         \E rs \in {<<r1, r2, r3, r4>>}, recs \in {ProcessRecords(r1.items)} :
            \E u \in UninitChoices(rs, recs) :
            \E t \in {TryBlock(rs, recs, frame[p].now, u)} :
                /\ frame' = [frame EXCEPT ![p].data = t.data, ![p].exc = t.exc,
                                          ![p].stage = t.stage, ![p].records = t.records,
                                          ![p].nreq = t.nreq, ![p].bad_status = t.bad_status]
                /\ pc' = [pc EXCEPT ![p] = IF t.exc = "none" THEN "store_data" ELSE "except"]
    /\ UNCHANGED <<data_cache, clock, ret, out, hist, calc>>

\* Caller p has just written key `data` (last_data) or key `last_fetch`
\* (last_time) of the slot: p's call is now the last writer of that key.
LastWriter(p, key) == [q \in Procs |-> [frame[q] EXCEPT ![key] = (q = p)]]

\* StoreData that keeps the data already in the slot.
StoreData_first(p) ==
    /\ pc[p] = "store_data"
    /\ data_cache' = [data_cache EXCEPT !.data = IF @ = None THEN frame[p].data ELSE @]
    /\ frame' = LastWriter(p, "last_data")
    /\ pc' = [pc EXCEPT ![p] = "store_time"]
    /\ UNCHANGED <<clock, ret, out, hist, calc>>

\* data_cache['data'] = data
StoreData(p) ==
    /\ pc[p] = "store_data"
    /\ data_cache' = [data_cache EXCEPT !.data = frame[p].data]
    /\ frame' = LastWriter(p, "last_data")
    /\ pc' = [pc EXCEPT ![p] = "store_time"]
    /\ UNCHANGED <<clock, ret, out, hist, calc>>

\* StoreLastFetch reading the clock again instead of using `now`.
StoreLastFetch_clock(p) ==
    /\ pc[p] = "store_time"
    /\ data_cache' = [data_cache EXCEPT !.last_fetch = Some(clock)]
    /\ frame' = LastWriter(p, "last_time")
    /\ ret' = [ret EXCEPT ![p] = frame[p].data]
    /\ pc' = [pc EXCEPT ![p] = IF frame[p].caller = "update_dashboard" THEN "render" ELSE "returned"]
    /\ UNCHANGED <<clock, out, hist, calc>>

\* data_cache['last_fetch'] = now; return data
StoreLastFetch(p) ==
    /\ pc[p] = "store_time"
    /\ data_cache' = [data_cache EXCEPT !.last_fetch = Some(frame[p].now)]
    /\ frame' = LastWriter(p, "last_time")
    /\ Return(p, frame[p].data[1])
    /\ UNCHANGED <<clock, out, hist, calc>>

\* ExceptValue that always degrades to the empty entry.
ExceptValue_empty(cache, now) == EmptyEntry(now)

\* except Exception: the cached entry if there is one, else the empty entry
ExceptValue(cache, now) == IF cache.data # None THEN cache.data[1] ELSE EmptyEntry(now)

\* Except that also stores the value it returns.
Except_store(p) ==
    /\ pc[p] = "except"
    /\ data_cache' = [data |-> Some(ExceptValue(data_cache, frame[p].now)),
                      last_fetch |-> Some(frame[p].now)]
    /\ Return(p, ExceptValue(data_cache, frame[p].now))
    /\ UNCHANGED <<clock, frame, out, hist, calc>>

Except(p) ==
    /\ pc[p] = "except"
    /\ Return(p, ExceptValue(data_cache, frame[p].now))
    /\ UNCHANGED <<data_cache, clock, frame, out, hist, calc>>

\* The rest of update_dashboard.
Render(p) ==
    /\ pc[p] = "render"
    /\ out' = [out EXCEPT ![p] = IF RenderOutputs(ret[p][1]).exc = "none" THEN "rendered" ELSE "raised"]
    /\ pc' = [pc EXCEPT ![p] = "done"]
    /\ UNCHANGED <<data_cache, clock, frame, ret, hist, calc>>

\* The caller is finished with the call: its locals and the returned reference
\* are dropped.
Exit(p) ==
    /\ pc[p] \in {"returned", "done"}
    /\ pc' = [pc EXCEPT ![p] = "idle"]
    /\ frame' = [frame EXCEPT ![p] = NoFrame]
    /\ ret' = [ret EXCEPT ![p] = None]
    /\ out' = [out EXCEPT ![p] = "none"]
    /\ hist' = IF frame[p].force THEN hist
               ELSE Some([now |-> frame[p].now, fetched |-> frame[p].nreq > 0,
                          failed |-> frame[p].exc # "none"])
    /\ UNCHANGED <<data_cache, clock, calc>>

\* Time passes.
Tick(d) ==
    /\ clock + d <= MaxClock
    /\ clock' = clock + d
    /\ UNCHANGED <<data_cache, pc, frame, ret, out, hist, calc>>

(***************************************************************************)
(* Spec: calls made one after the other, as the design assumes, against an *)
(* upstream that serves well-formed records or fails.                      *)
(***************************************************************************)
Next ==
    \/ \E p \in Serial : fetch_covid_data(p)
    \/ \E p \in Serial : update_dashboard(p)
    \/ \E p \in Serial : ReturnCached(p)
    \/ \E p \in Serial : Refresh(p, CountryResponses(GoodBatches), YesterdayResponses,
                                 GlobalResponses({GlobalToday}), GlobalYesterdayResponses)
    \/ \E p \in Serial : StoreData(p)
    \/ \E p \in Serial : StoreLastFetch(p)
    \/ \E p \in Serial : Except(p)
    \/ \E p \in Serial : Render(p)
    \/ \E p \in Serial : Exit(p)
    \/ Tick(TICK_SECONDS)

Spec == Init /\ [][Next]_vars

(***************************************************************************)
(* SpecCold: calls made while no refresh has succeeded yet (the first      *)
(* renders after process start), against an upstream that can also serve   *)
(* malformed records and fields.                                           *)
(***************************************************************************)
AllGlobals == {GlobalToday, GlobalNullToday, GlobalBadUpdated}

NextCold ==
    \/ \E p \in Serial : data_cache.data = None /\ fetch_covid_data(p)
    \/ \E p \in Serial : data_cache.data = None /\ update_dashboard(p)
    \/ \E p \in Serial : Refresh(p, CountryResponses(Batches), YesterdayResponses,
                                 GlobalResponses(AllGlobals), GlobalYesterdayResponses)
    \/ \E p \in Serial : StoreData(p)
    \/ \E p \in Serial : StoreLastFetch(p)
    \/ \E p \in Serial : Except(p)
    \/ \E p \in Serial : Render(p)
    \/ \E p \in Serial : Exit(p)
    \/ Tick(TICK_SECONDS)

SpecCold == Init /\ [][NextCold]_vars

(***************************************************************************)
(* SpecConc: two callers whose calls interleave (a threaded host), against *)
(* an upstream whose first request either fails or succeeds; time passes   *)
(* a freshness window at a time.                                           *)
(***************************************************************************)
NextConc ==
    \/ \E p \in Procs : fetch_covid_data(p)
    \/ \E p \in Procs : update_dashboard(p)
    \/ \E p \in Procs : ReturnCached(p)
    \/ \E p \in Procs : Refresh(p, {NetErrC} \cup {ListC(200, b) : b \in GoodBatches},
                                {ListC(200, <<ItemB>>)}, {DictG(200, GlobalToday)},
                                {DictG(200, GlobalYesterday)})
    \/ \E p \in Procs : StoreData(p)
    \/ \E p \in Procs : StoreLastFetch(p)
    \/ \E p \in Procs : Except(p)
    \/ \E p \in Procs : Render(p)
    \/ \E p \in Procs : Exit(p)
    \/ Tick(FRESH_SECONDS)

SpecConc == Init /\ [][NextConc]_vars

(***************************************************************************)
(* Properties.                                                             *)
(***************************************************************************)
\* fetch_covid_data has returned to caller p, whose locals are still in frame[p].
HasReturned(p) == pc[p] \in {"returned", "render", "done"}

\* The refresh of p's call ended in the except branch.
RefreshFailed(p) == frame[p].exc # "none"

\* C1: when the cache holds an entry and a forced call's refresh fails (in a
\* request or while processing), the call returns the entry that was cached
\* when it started, and data and last_fetch are what they were.
C1_StaleFallback ==
    \A p \in Serial :
        (HasReturned(p) /\ frame[p].force /\ RefreshFailed(p) /\ frame[p].pre.data # None)
            => /\ ret[p] = frame[p].pre.data
               /\ data_cache = frame[p].pre

\* A forced call over a populated cache has failed after all four requests
\* were sent, later than the entry was fetched.
C1_Witness ==
    \E p \in Serial :
        /\ HasReturned(p) /\ frame[p].force /\ RefreshFailed(p)
        /\ frame[p].pre.data # None
        /\ frame[p].nreq = 4
        /\ frame[p].now > frame[p].pre.last_fetch[1]

\* C2: a force=False call made less than 900 seconds after last_fetch, with an
\* entry cached, returns that entry, sends no request and leaves the slot as
\* it was.
C2_CacheHit ==
    \A p \in Serial :
        (/\ HasReturned(p) /\ ~frame[p].force
         /\ frame[p].pre.data # None /\ frame[p].pre.last_fetch # None
         /\ frame[p].now - frame[p].pre.last_fetch[1] < 900)
            => /\ ret[p] = frame[p].pre.data
               /\ frame[p].nreq = 0
               /\ data_cache = frame[p].pre

\* A force=False call has returned 600 seconds after the entry was fetched.
C2_Witness ==
    \E p \in Serial :
        /\ HasReturned(p) /\ ~frame[p].force
        /\ frame[p].pre.data # None
        /\ frame[p].now - frame[p].pre.last_fetch[1] = 600

\* C3 as stated: two force=False calls made within 900 seconds of each other
\* perform at most one fetch in total.
C3_Original ==
    \A p \in Serial :
        (/\ HasReturned(p) /\ ~frame[p].force /\ hist # None
         /\ frame[p].now - hist[1].now < 900)
            => ~(hist[1].fetched /\ frame[p].nreq > 0)

\* C3 amended: of two force=False calls made within 900 seconds of each other,
\* the second sends no request when the first one's refresh succeeded; and a
\* force=False call made over an empty cache, or 900 seconds or more after
\* last_fetch, makes one refresh attempt (one to four requests).
C3_FetchCount ==
    \A p \in Serial :
        (HasReturned(p) /\ ~frame[p].force)
            => /\ (/\ hist # None /\ hist[1].fetched /\ ~hist[1].failed
                   /\ frame[p].now - hist[1].now < 900)
                      => frame[p].nreq = 0
               /\ (\/ frame[p].pre.data = None
                   \/ frame[p].now - frame[p].pre.last_fetch[1] >= 900)
                      => frame[p].nreq \in 1..4

\* The first force=False call fetched successfully, the second came 900 seconds
\* later and fetched again.
C3_Witness ==
    \E p \in Serial :
        /\ HasReturned(p) /\ ~frame[p].force
        /\ hist # None /\ hist[1].fetched /\ ~hist[1].failed
        /\ frame[p].pre.data # None
        /\ frame[p].now - frame[p].pre.last_fetch[1] = 900
        /\ frame[p].nreq = 4

\* C4: when the refresh fails and nothing is cached, the call returns an entry
\* whose country list and per-country arrays are empty and whose new_* and
\* *_trend values are 0.
C4_DegradeToEmpty ==
    \A p \in Serial :
        (HasReturned(p) /\ RefreshFailed(p) /\ frame[p].pre.data = None)
            => /\ ret[p] # None
               /\ \A k \in {"countries", "cases", "active", "recovered", "deaths", "iso3",
                            "cases_per_million", "deaths_per_million", "tests_per_million"} :
                      Len(ret[p][1][k]) = 0
               /\ \A k \in {"new_cases", "new_deaths", "new_recovered"} : ret[p][1][k] = Num(0)
               /\ \A k \in {"cases_trend", "deaths_trend", "recovered_trend"} : ret[p][1][k] = Fl(0)

\* A call over an empty cache has failed in the global-summary part, after the
\* record loop had built its columns.
C4_Witness ==
    \E p \in Serial :
        /\ HasReturned(p) /\ RefreshFailed(p) /\ frame[p].pre.data = None
        /\ frame[p].stage = "summary"

\* C5: a refresh in which a response had a non-success status counts as
\* failed: the slot is not overwritten and the call returns the prior entry,
\* or the empty entry when there is none.
C5_NonSuccessStatusFails ==
    \A p \in Serial :
        (HasReturned(p) /\ frame[p].bad_status)
            => /\ data_cache = frame[p].pre
               /\ ret[p] = Some(ExceptValue(frame[p].pre, frame[p].now))

\* C6: the render step of update_dashboard never raises.
C6_RenderNeverRaises == \A p \in Serial : out[p] # "raised"

\* The slot is absent, or holds data together with the last_fetch of the
\* refresh that built the data.
SlotWhole ==
    \/ data_cache.data = None /\ data_cache.last_fetch = None
    \/ /\ data_cache.data # None /\ data_cache.last_fetch # None
       /\ data_cache.last_fetch[1] = data_cache.data[1].built_at

\* Caller q is at a point where its next step reads the slot.
AboutToRead(q) == pc[q] \in {"idle", "hit", "except"}

\* C9 as stated: whenever a caller is about to read the slot, also while
\* another call is in progress, the slot is absent or fully populated.
C9_Original == \A q \in Procs : AboutToRead(q) => SlotWhole

\* C9 amended: when calls are made one after the other, the slot is absent or
\* fully populated (data with the last_fetch of the same refresh) whenever the
\* caller is about to read it.
C9_SlotWholeSerial == \A q \in Serial : AboutToRead(q) => SlotWhole

\* A later call reads a slot that an earlier refresh populated, after the clock
\* has moved on.
C9_Witness ==
    \E q \in Serial :
        /\ pc[q] = "hit"
        /\ data_cache.data # None
        /\ frame[q].now > data_cache.last_fetch[1]

\* Both callers have returned from fetch_covid_data(force=True) calls that
\* succeeded, and their locals are still in frame.
BothForcedSucceeded ==
    \A p \in Procs : pc[p] = "returned" /\ frame[p].force /\ frame[p].exc = "none"

\* C13 as stated: after two forced calls have both succeeded and returned, the
\* slot holds the entry of exactly one of them, the one that wrote last, with
\* data and last_fetch both from that call.
C13_Original ==
    BothForcedSucceeded =>
        \E w \in Procs :
            /\ frame[w].last_time
            /\ data_cache.data = frame[w].data
            /\ data_cache.last_fetch = Some(frame[w].now)

\* C13 amended: after two forced calls have both succeeded and returned, each
\* key of the slot holds what the call that wrote that key last stored there:
\* data is the entry of the last call to write data, last_fetch is the `now`
\* of the last call to write last_fetch; the two may be different calls.
C13_LastWriteWinsPerKey ==
    BothForcedSucceeded =>
        \E wd \in Procs, wt \in Procs :
            /\ frame[wd].last_data
            /\ data_cache.data = frame[wd].data
            /\ frame[wt].last_time
            /\ data_cache.last_fetch = Some(frame[wt].now)

\* Two forced calls that started at different times have raced: the slot holds
\* the data of one and the last_fetch of the other.
C13_Witness ==
    /\ BothForcedSucceeded
    /\ \E wd \in Procs, wt \in Procs :
          /\ wd # wt
          /\ frame[wd].now # frame[wt].now
          /\ frame[wd].last_data
          /\ frame[wt].last_time
          /\ data_cache.data = frame[wd].data
          /\ data_cache.last_fetch = Some(frame[wt].now)

\* The per-country body p's refresh parsed, and the call is past its try block.
PastTry(p) == pc[p] \notin {"idle", "hit", "fetch"} /\ frame[p].records # None

\* A record that is an object with every numeric field a number or absent.
WellFormed(item) ==
    /\ item.kind = "dict"
    /\ \A f \in NumFieldSet : item[f].t \in {"num", "missing"}
    /\ item.countryInfo.t \in {"obj", "missing"}

\* A record that is an object whose cases field is not a number, the rest of it
\* being well-formed.
MalformedCases(item) ==
    /\ item.kind = "dict"
    /\ item.cases.t \in {"str", "null", "obj"}
    /\ \A f \in NumFieldSet \ {"cases"} : item[f].t \in {"num", "missing"}
    /\ item.countryInfo.t \in {"obj", "missing"}

\* Exactly one record of the batch satisfies Odd and the others are well-formed.
OneOdd(batch, Odd(_)) ==
    \E i \in 1..Len(batch) :
        /\ Odd(batch[i])
        /\ \A j \in 1..Len(batch) : j # i => WellFormed(batch[j])

NotAnObject(item) == item.kind # "dict"

\* C7: when one record of an otherwise valid batch has a malformed cases field
\* (and the requests and the global summary are fine), the refresh succeeds,
\* the entry has as many countries as the batch has records, and cases is 0
\* for that record.
C7_FieldDefault ==
    \A p \in Serial :
        (/\ PastTry(p) /\ frame[p].stage \in {"none", "records"}
         /\ OneOdd(frame[p].records[1], MalformedCases))
            => /\ frame[p].stage = "none"
               /\ Len(frame[p].data[1].countries) = Len(frame[p].records[1])
               /\ \A i \in 1..Len(frame[p].records[1]) :
                      MalformedCases(frame[p].records[1][i]) => frame[p].data[1].cases[i] = Fl(0)

\* C8: when one record of the batch is not an object (and the requests and the
\* global summary are fine), the refresh succeeds and the entry holds the other
\* records: one country fewer than the batch has records.
C8_StructuralSkip ==
    \A p \in Serial :
        (/\ PastTry(p) /\ frame[p].stage \in {"none", "records"}
         /\ OneOdd(frame[p].records[1], NotAnObject))
            => /\ frame[p].stage = "none"
               /\ Len(frame[p].data[1].countries) = Len(frame[p].records[1]) - 1
               /\ (HasReturned(p) => data_cache.data = frame[p].data)

\* value / population * 1,000,000 when population > 0, else 0.
RatePerMillion(value, population) ==
    IF population > 0 THEN Norm(value * 1000000, population) ELSE Fl(0)

\* C10: for every record of a successful refresh over well-formed records, the
\* three per-million rates are value / population * 1,000,000 when the
\* population is greater than 0, and 0 otherwise.
C10_PerMillion ==
    \A p \in Serial :
        (/\ PastTry(p) /\ frame[p].data # None
         /\ \A i \in 1..Len(frame[p].records[1]) : WellFormed(frame[p].records[1][i]))
            => \A i \in 1..Len(frame[p].records[1]) :
                  LET item == frame[p].records[1][i]
                      population == Get(item.population, Num(1)).v
                      entry == frame[p].data[1]
                  IN  /\ entry.cases_per_million[i]
                            = RatePerMillion(Get(item.cases, Num(0)).v, population)
                      /\ entry.deaths_per_million[i]
                            = RatePerMillion(Get(item.deaths, Num(0)).v, population)
                      /\ entry.tests_per_million[i]
                            = RatePerMillion(Get(item.tests, Num(0)).v, population)

(***************************************************************************)
(* SpecPure: the pure helper functions applied to inputs drawn from        *)
(* bounded sets.                                                           *)
(***************************************************************************)
\* The largest magnitude of the small integers tried as arguments.
MaxNum == 3

\* Arguments: small integers, an integer beyond the float range, None, a
\* string, a dict.
Scalars == {Num(n) : n \in (0 - MaxNum)..MaxNum} \cup {Huge, Null, BadStr, Obj}

ApplyCalculateTrend ==
    /\ \E current \in Scalars, previous \in Scalars :
          calc' = [fn |-> "calculate_trend", args |-> <<current, previous>>,
                   res |-> calculate_trend(current, previous)]
    /\ UNCHANGED <<data_cache, clock, pc, frame, ret, out, hist>>

\* The classes safe_division catches: except (TypeError, ZeroDivisionError).
SafeCaught == {"TypeError", "ZeroDivisionError"}

\* safe_division(a, b, default) on JSON scalars: the exception that leaves it,
\* if any, and the value it returns (default is returned as passed, a / b as
\* a float).
safe_division(a, b, default) ==
    LET q == TrueDiv(a, b)
        body == IF b = Num(0) \/ b.t = "null" THEN [exc |-> "none", v |-> default]
                ELSE IF q.exc # "none" THEN [exc |-> q.exc, v |-> default]
                ELSE [exc |-> "none", v |-> q.f]
    IN  IF body.exc \in SafeCaught THEN [exc |-> "none", v |-> default] ELSE body

\* The defaults passed: the declared default 0 and another number.
Defaults == {Num(0), Num(7)}

ApplySafeDivision ==
    /\ \E a \in Scalars, b \in Scalars, default \in Defaults :
          calc' = [fn |-> "safe_division", args |-> <<a, b, default>>,
                   res |-> safe_division(a, b, default)]
    /\ UNCHANGED <<data_cache, clock, pc, frame, ret, out, hist>>

\* The palette of get_color_for_value; a colour '#rrggbb' is the sequence of
\* its six hex digits.
colors ==
    << <<4, 10, 1, 4, 8, 12>>,     \* '#4a148c'
       <<7, 11, 1, 15, 10, 2>>,    \* '#7b1fa2'
       <<9, 12, 2, 7, 11, 0>>,     \* '#9c27b0'
       <<14, 9, 1, 14, 6, 3>>,     \* '#e91e63'
       <<15, 4, 4, 3, 3, 6>>,      \* '#f44336'
       <<15, 15, 5, 7, 2, 2>> >>   \* '#ff5722'

\* num_colors = len(colors) - 1
num_colors == Len(colors) - 1

\* int(x) of a float: truncation toward zero.
int(x) == IF x[1] >= 0 THEN x[1] \div x[2] ELSE 0 - ((0 - x[1]) \div x[2])

\* int(c[a:a+2], 16), a counted from the first digit after '#'.
HexToInt(c, a) == 16 * c[a] + c[a + 1]

\* f'{r:02x}' for a channel in 0..255
FormatHex(r) == <<r \div 16, r % 16>>

\* Interpolate with the weights exchanged.
Interpolate_swapped(x1, x2, t) ==
    int(FAdd(FMul(Fl(x1), t), FMul(Fl(x2), FAdd(Fl(1), FMul(Fl(-1), t)))))

\* int(r1 * (1 - t) + r2 * t)
Interpolate(x1, x2, t) ==
    int(FAdd(FMul(Fl(x1), FAdd(Fl(1), FMul(Fl(-1), t))), FMul(Fl(x2), t)))

get_color_for_value(value) ==
    LET segment == FMul(value, Fl(num_colors))
        i == int(segment)
        t == FAdd(segment, Fl(0 - i))
        c1 == colors[i + 1]
        c2 == colors[i + 2]
        Channel(a) == FormatHex(Interpolate(HexToInt(c1, a), HexToInt(c2, a), t))
    IN  IF i >= num_colors THEN colors[Len(colors)]
        ELSE IF i < 0 THEN colors[1]
        ELSE Channel(1) \o Channel(3) \o Channel(5)

\* Grid points per palette segment.
ColorGrid == 4

\* Values on the grid, from below 0 to above 1.
Values == {Norm(n, num_colors * ColorGrid) : n \in (0 - 2 * ColorGrid)..(7 * ColorGrid)}

ApplyColor ==
    /\ \E value \in Values :
          calc' = [fn |-> "get_color_for_value", args |-> <<value>>,
                   res |-> [exc |-> "none", v |-> get_color_for_value(value)]]
    /\ UNCHANGED <<data_cache, clock, pc, frame, ret, out, hist>>

NextPure ==
    \/ ApplyCalculateTrend
    \/ ApplySafeDivision
    \/ ApplyColor

SpecPure == Init /\ [][NextPure]_vars

\* C16: in serial sequences of calls the slot changes only at the end of a
\* successful refresh: a call whose refresh failed leaves the slot as it found
\* it, the slot never holds the synthetic empty entry, data is unset exactly
\* when last_fetch is unset, and a force=False call that finds the slot empty
\* (as after a failed first fetch) attempts a refresh.
C16_OnlySuccessWrites ==
    /\ data_cache.data # None
          => data_cache.data[1] # EmptyEntry(data_cache.data[1].built_at)
    /\ \A p \in Serial :
          /\ pc[p] \in {"hit", "fetch", "store_data", "except"} => data_cache = frame[p].pre
          /\ (HasReturned(p) /\ RefreshFailed(p)) => data_cache = frame[p].pre
          /\ (HasReturned(p) /\ data_cache # frame[p].pre)
                => /\ ~RefreshFailed(p)
                   /\ frame[p].nreq = 4
                   /\ data_cache = [data |-> frame[p].data, last_fetch |-> Some(frame[p].now)]
          /\ AboutToRead(p) => (data_cache.data = None <=> data_cache.last_fetch = None)
          /\ (pc[p] # "idle" /\ ~frame[p].force /\ frame[p].pre.data = None)
                => pc[p] # "hit" /\ (HasReturned(p) => frame[p].nreq >= 1)

\* After a first fetch that failed, the next force=False call has found the
\* slot still empty and has sent requests again.
C16_Witness ==
    /\ hist # None
    /\ hist[1].failed
    /\ \E p \in Serial :
          /\ HasReturned(p) /\ ~frame[p].force
          /\ frame[p].pre = EmptyCache
          /\ frame[p].nreq >= 1

\* The per-country columns of an entry.
Columns(e) ==
    {e.countries, e.iso3, e.cases, e.active, e.recovered, e.deaths,
     e.cases_per_million, e.deaths_per_million, e.tests_per_million}

\* All columns of the entry have the same length.
SameLength(e) == \A c \in Columns(e), d \in Columns(e) : Len(c) = Len(d)

\* Index i of the name columns refers to record i of the batch.
SameCountry(e, items) ==
    /\ Len(e.countries) = Len(items)
    /\ Len(e.iso3) = Len(items)
    /\ \A i \in 1..Len(items) :
          /\ e.countries[i] = (IF items[i].country = "" THEN "Unknown" ELSE items[i].country)
          /\ e.iso3[i] = Iso3Of(items[i]).s

\* The lookup data['countries'][i] for i in argsort(data['cases']) is in range.
LookupInRange(e) == Len(e.countries) >= Len(e.cases)

\* C15: in every entry fetch_covid_data returns or stores, the countries list,
\* the iso3 list and every per-country array have the same length and index i
\* of each refers to the same country, whatever records the batch contained;
\* the top-10 lookup data['countries'][i] is in range.
C15_ColumnAlignment ==
    /\ data_cache.data # None => SameLength(data_cache.data[1])
    /\ \A p \in Serial :
          /\ ret[p] # None => SameLength(ret[p][1]) /\ LookupInRange(ret[p][1])
          /\ (PastTry(p) /\ frame[p].data # None)
                => SameCountry(frame[p].data[1], frame[p].records[1])

\* A JSON scalar that is a number.
IsNumber(x) == x.t \in {"num", "huge", "neghuge"}

\* C11: calculate_trend returns without raising for all inputs; it returns 0
\* when previous is 0 or None, 0 for calculate_trend(p, p) with p a nonzero
\* number, and (current - previous) / previous * 100 for numbers otherwise.
C11_TrendTotal ==
    calc.fn = "calculate_trend" =>
        LET current == calc.args[1]
            previous == calc.args[2]
        IN  /\ calc.res.exc = "none"
            /\ (previous = Num(0) \/ previous = Null) => calc.res.v = Fl(0)
            /\ (IsNumber(previous) /\ previous # Num(0) /\ current = previous)
                  => calc.res.v = Fl(0)
            /\ (current.t = "num" /\ previous.t = "num" /\ previous # Num(0))
                  => calc.res.v = Norm((current.v - previous.v) * 100, previous.v)

\* C12: safe_division(a, b, default) never raises; it returns default for
\* every a and default whenever b is 0 or None, and a / b for numbers
\* otherwise.
C12_SafeDivisionTotal ==
    calc.fn = "safe_division" =>
        LET a == calc.args[1]
            b == calc.args[2]
            default == calc.args[3]
        IN  /\ calc.res.exc = "none"
            /\ (b = Num(0) \/ b = Null) => calc.res.v = default
            /\ (a.t = "num" /\ b.t = "num" /\ b # Num(0))
                  => calc.res.v = Norm(a.v, b.v)

\* x lies between a and b, in either order.
Between(x, a, b) == (a <= x /\ x <= b) \/ (b <= x /\ x <= a)

\* floor(num_colors * v) for v >= 0, capped at the last palette index.
PaletteIndex(v, plus) ==
    LET k == (num_colors * v[1]) \div v[2] + plus
    IN  IF k > num_colors THEN num_colors ELSE k

====
